---- MODULE Spec2Model ----
(***************************************************************************)
(* Model of the cheetah monitoring agent (src/main.go).                    *)
(*                                                                         *)
(* Strings are sequences of one-character strings, so that parsePorts is   *)
(* modelled by what strings.Split, strings.TrimSpace and strconv.Atoi do   *)
(* on the characters.                                                      *)
(*                                                                         *)
(* Four specifications:                                                    *)
(*   Spec       main(): listener, host identity, getOpenPorts (PORTS or    *)
(*              the concurrent scan), registration, reporting loop.        *)
(*   SpecFair   Spec with the scheduling of the scan's goroutines.         *)
(*   SpecAgent  main() together with the accept goroutine and the          *)
(*              connections made to the listener, scheduled fairly.        *)
(*   SpecParse  parsePorts applied to every string over Alphabet of        *)
(*              length at most MaxLen.                                     *)
(***************************************************************************)
EXTENDS Integers, Sequences, FiniteSets, TLC

\* ---------------------------------------------------------------- bounds
\* Longest PORTS string SpecParse enumerates.
MaxLen == 5
\* Last port of the scan; stands for endPort = 65535 (main.go:117).
EndPort == 3
\* Capacity of the semaphore channel; stands for 100 (main.go:121).
MaxSlots == 2
\* Number of ticker ticks the reporting loop is followed for.
MaxTicks == 2
\* Number of connections made to the agent's listener.
MaxConns == 2

\* ------------------------------------------------------ program constants
startPort == 1
StatusOK == 200
DefaultIntervalSeconds == 60

\* ------------------------------------------------------------- strings
Digits == {"0", "1", "2", "3", "4", "5", "6", "7", "8", "9"}

DigitVal(c) ==
    CASE c = "0" -> 0 [] c = "1" -> 1 [] c = "2" -> 2 [] c = "3" -> 3
      [] c = "4" -> 4 [] c = "5" -> 5 [] c = "6" -> 6 [] c = "7" -> 7
      [] c = "8" -> 8 [] c = "9" -> 9

\* strings.Contains(s, c) for a one-character c.
Contains(s, c) == \E i \in 1..Len(s) : s[i] = c

\* strings.Split(s, sep) for a one-character sep: n separators give n+1
\* parts, and the empty string gives one empty part.
RECURSIVE Split(_, _)
Split(s, sep) ==
    IF ~Contains(s, sep)
    THEN <<s>>
    ELSE LET i == CHOOSE k \in 1..Len(s) :
                      s[k] = sep /\ \A j \in 1..(k - 1) : s[j] # sep
         IN  <<SubSeq(s, 1, i - 1)>> \o Split(SubSeq(s, i + 1, Len(s)), sep)

\* strings.TrimSpace(s): leading and trailing white space removed.
RECURSIVE TrimSpace(_)
TrimSpace(s) ==
    IF s = <<>> THEN s
    ELSE IF s[1] = " " THEN TrimSpace(Tail(s))
    ELSE IF s[Len(s)] = " " THEN TrimSpace(SubSeq(s, 1, Len(s) - 1))
    ELSE s

RECURSIVE DecimalValue(_)
DecimalValue(s) ==
    IF s = <<>> THEN 0
    ELSE 10 * DecimalValue(SubSeq(s, 1, Len(s) - 1)) + DigitVal(s[Len(s)])

\* strconv.Atoi(s): an optional sign, then one or more decimal digits;
\* anything else is an error.  (Values stay far below the int range for the
\* string lengths used here, so the range error is not modelled.)
Atoi(s) ==
    LET signed == s # <<>> /\ s[1] \in {"+", "-"}
        body   == IF signed THEN Tail(s) ELSE s
    IN  IF body = <<>> \/ \E i \in 1..Len(body) : body[i] \notin Digits
        THEN [err |-> TRUE, val |-> 0]
        ELSE [err |-> FALSE,
              val |-> IF signed /\ s[1] = "-"
                      THEN 0 - DecimalValue(body) ELSE DecimalValue(body)]

\* Mutant of RangePorts: the loop stops before end (i < end).
RangePortsExclusive(start, end) == [i \in 1..(end - start) |-> start + i - 1]

\* for i := start; i <= end; i++ { ports = append(ports, i) }
RangePorts(start, end) == [i \in 1..(end - start + 1) |-> start + i - 1]

ParseError == [err |-> TRUE, ports |-> <<>>]

\* The body of parsePorts' loop for one token: the values it appends, or
\* an error.
ParseToken(rawToken) ==
    LET token == TrimSpace(rawToken)
    IN  IF Contains(token, "-")
        THEN LET parts == Split(token, "-")
             IN  IF Len(parts) # 2 THEN ParseError
                 ELSE LET start == Atoi(TrimSpace(parts[1]))
                          end   == Atoi(TrimSpace(parts[2]))
                      IN  IF start.err THEN ParseError
                          ELSE IF end.err THEN ParseError
                          ELSE IF start.val > end.val THEN ParseError
                          ELSE [err |-> FALSE,
                                ports |-> RangePorts(start.val, end.val)]
        ELSE LET port == Atoi(token)
             IN  IF port.err THEN ParseError
                 ELSE [err |-> FALSE, ports |-> <<port.val>>]

\* Mutant of ParseTokens: a failing token is skipped and the loop goes on.
RECURSIVE ParseTokensSkipInvalid(_, _, _)
ParseTokensSkipInvalid(tokens, i, ports) ==
    IF i > Len(tokens) THEN [err |-> FALSE, ports |-> ports]
    ELSE LET t == ParseToken(tokens[i])
         IN  ParseTokensSkipInvalid(tokens, i + 1,
                                    IF t.err THEN ports ELSE ports \o t.ports)

\* parsePorts' loop over the tokens from index i on, with the ports
\* appended so far: the first failing token returns (nil, err).
RECURSIVE ParseTokens(_, _, _)
ParseTokens(tokens, i, ports) ==
    IF i > Len(tokens) THEN [err |-> FALSE, ports |-> ports]
    ELSE LET t == ParseToken(tokens[i])
         IN  IF t.err THEN ParseError
             ELSE ParseTokens(tokens, i + 1, ports \o t.ports)

parsePorts(s) == ParseTokens(Split(s, ","), 1, <<>>)

\* ------------------------------------------------------------ the process
VARIABLES
    pc,             \* position of main()
    external,       \* ports of 127.0.0.1 on which some other process listens
    agentPort,      \* port of the listener ln, 0 while it is not bound
    portsEnv,       \* os.Getenv("PORTS")
    intervalEnv,    \* os.Getenv("SEND_INTERVAL"), Unread until main reads it
    port,           \* loop variable of the scan
    sem,            \* number of elements in the channel sem
    wg,             \* counter of the sync.WaitGroup
    mu,             \* 0 when the mutex is free, else the probe holding it
    openPorts,      \* the scan's shared slice
    probe,          \* position of the goroutine probing each port
    agentInfo,      \* the AgentInfo built by main, NoInfo before
    regPosts,       \* registration POSTs issued so far
    regResp,        \* outcome of the registration POST, NoResp before
    sendInterval,   \* seconds given to time.NewTicker, -1 before
    ticks,          \* ticks received from ticker.C
    sample,         \* the Metrics value the cycle holds: the number of the
                    \* cycle that collected it, NoSample when it holds none
    metricsPosts,   \* metrics POSTs issued so far
    fatal,          \* the startup failure that made main return, "none" before
    attempts,       \* calls of collectMetrics so far
    collectErr,     \* the query that failed in the cycle's collectMetrics
    sendErr,        \* TRUE when the cycle's sendMetrics returned an error
    sendResp,       \* outcome of the cycle's metrics POST, NoResp without one
    sent,           \* the metrics POSTs issued: the cycle and the sample of each
    acceptor,       \* position of the accept goroutine, "off" before it starts
    backlog,        \* connections to the listener not yet accepted
    arrived,        \* connections made to the listener so far
    closed,         \* accepted connections closed so far
    acceptErrs,     \* TRUE once an Accept has returned an error
    parseIn,        \* SpecParse: the argument of parsePorts
    parseOut        \* SpecParse: the result of parsePorts, NoResult before

scanVars == <<port, sem, wg, mu, openPorts, probe>>
regVars == <<agentInfo, regPosts, regResp>>
loopVars == <<sendInterval, ticks, sample, metricsPosts, attempts, collectErr,
              sendErr, sendResp, sent>>
lnVars == <<acceptor, backlog, arrived, closed, acceptErrs>>
parseVars == <<parseIn, parseOut>>
envVars == <<external, portsEnv, intervalEnv>>
vars == <<pc, fatal, external, agentPort, portsEnv, intervalEnv, scanVars,
          regVars, loopVars, lnVars, parseVars>>

Ports == startPort..EndPort

NoInfo == [set |-> FALSE]
NoResp == [sent |-> FALSE]
NoResult == [done |-> FALSE]
NoSample == -1

\* Values of PORTS the process is started with ("" is unset).
PortsEnvValues ==
    { <<>>,
      <<"2">>,
      <<"2", ",", "4", "-", "6">>,
      <<"2", ",", "3", "-", "4", ",", "9">>,
      <<"2", "2", ",", "8", "0", "0", "0", "-", "8", "0", "0", "2">>,
      <<"1", ",", "1">>,
      <<"0">>,
      <<"7", "0", "0", "0", "0">>,
      <<"2", ",", "x">>,
      <<"1", "-", "3", ",", "5", "-", "4">> }

\* Values of SEND_INTERVAL the process is started with ("" is unset).  The
\* value never changes while the process runs and only main's line 294
\* reads it, so it is drawn where it is read.
SendIntervalValues == { <<>>, <<"5">>, <<"0">>, <<"x">>, <<"-", "1">> }
Unread == <<"unread">>

\* Outcomes of an http.Post: a transport error, or a response status.
Responses ==
    { [sent |-> TRUE, err |-> TRUE, status |-> 0] } \cup
    { [sent |-> TRUE, err |-> FALSE, status |-> st] :
          st \in {200, 201, 204, 404, 500} }

\* Ports of 127.0.0.1 that accept a TCP connection: the other processes'
\* and, once net.Listen(":0") has bound it, the agent's own listener.
Listening == external \cup (IF agentPort = 0 THEN {} ELSE {agentPort})

Init ==
    /\ pc = "listen"
    /\ external \in SUBSET Ports
    /\ agentPort = 0
    /\ portsEnv \in PortsEnvValues
    /\ intervalEnv = Unread
    /\ port = startPort
    /\ sem = 0
    /\ wg = 0
    /\ mu = 0
    /\ openPorts = <<>>
    /\ probe = [p \in Ports |-> "idle"]
    /\ agentInfo = NoInfo
    /\ regPosts = 0
    /\ regResp = NoResp
    /\ sendInterval = -1
    /\ ticks = 0
    /\ sample = NoSample
    /\ metricsPosts = 0
    /\ fatal = "none"
    /\ attempts = 0
    /\ collectErr = "none"
    /\ sendErr = FALSE
    /\ sendResp = NoResp
    /\ sent = <<>>
    /\ acceptor = "off"
    /\ backlog = 0
    /\ arrived = 0
    /\ closed = 0
    /\ acceptErrs = FALSE
    /\ parseIn = <<>>
    /\ parseOut = NoResult

\* Mutant of StartupNext: main goes on after a failed startup call.
StartupNextIgnoringErr(err, next) == next

\* if err != nil { fmt.Println(...); return }: where main goes after a
\* startup call.
StartupNext(err, next) == IF err THEN "exit" ELSE next

\* ln, err := net.Listen("tcp", ":0"): the system binds a free port, or the
\* call fails and main returns.  On success main starts the accept
\* goroutine.
Listen ==
    /\ pc = "listen"
    /\ \/ \E p \in Ports \ external :
              /\ agentPort' = p
              /\ acceptor' = "accept"
              /\ pc' = StartupNext(FALSE, "hostname")
              /\ UNCHANGED fatal
       \/ /\ pc' = StartupNext(TRUE, "hostname")
          /\ fatal' = "listen"
          /\ UNCHANGED <<agentPort, acceptor>>
    /\ UNCHANGED <<envVars, scanVars, regVars, loopVars, parseVars, backlog,
                   arrived, closed, acceptErrs>>

\* hostname, err := getHostname()
GetHostname ==
    /\ pc = "hostname"
    /\ \E err \in BOOLEAN :
          /\ pc' = StartupNext(err, "ip")
          /\ fatal' = IF err THEN "hostname" ELSE fatal
    /\ UNCHANGED <<envVars, agentPort, scanVars, regVars, loopVars,
                   parseVars, lnVars>>

\* ip, err := getLocalIP()
GetLocalIP ==
    /\ pc = "ip"
    /\ \E err \in BOOLEAN :
          /\ pc' = StartupNext(err, "getOpenPorts")
          /\ fatal' = IF err THEN "ip" ELSE fatal
    /\ UNCHANGED <<envVars, agentPort, scanVars, regVars, loopVars,
                   parseVars, lnVars>>

\* ---------------------------------------------------------- getOpenPorts
\* Mutant of UsesParsedList: the parsed list is never returned.
UsesParsedListNever(env) == FALSE

\* Mutant of UsesParsedList: the error of parsePorts is not looked at.
UsesParsedListIgnoringErr(env) == env # <<>>

\* The branch of getOpenPorts that returns the parsed list: PORTS is not
\* empty and parsePorts returned no error.
UsesParsedList(env) == env # <<>> /\ ~parsePorts(env).err

\* Mutant of SlotFree: a channel with room for one more element.
SlotFreeOneMore(n) == n < MaxSlots + 1

\* sem <- struct{}{} proceeds only while the channel holds fewer elements
\* than its capacity.
SlotFree(n) == n < MaxSlots

\* Outcomes of net.DialTimeout("tcp", "127.0.0.1:p", timeout).
DialOutcomes(p) ==
    IF p \in Listening THEN {"connected"} ELSE {"refused", "timeout"}

\* Mutant of ProbeFound: the error of DialTimeout is not looked at.
ProbeFoundAlways(outcome) == TRUE

\* if err == nil { ... append ... }
ProbeFound(outcome) == outcome = "connected"

\* Mutant of AppendPort: the slice is replaced, not appended to.
AppendPortOverwrite(list, p) == <<p>>

\* The slice after append(openPorts, p).
AppendPort(list, p) == Append(list, p)

\* Mutant of BuildAgentInfo: AgentPort is left at its zero value.
BuildAgentInfoNoPort(ports, lnPort) ==
    [set |-> TRUE, openPorts |-> ports, agentPort |-> 0]

\* agentInfo := AgentInfo{..., OpenPorts: openPorts, ..., AgentPort: agentPort}
BuildAgentInfo(ports, lnPort) ==
    [set |-> TRUE, openPorts |-> ports, agentPort |-> lnPort]

\* Entry of getOpenPorts: return the parsed PORTS list, or fall through to
\* the scan.
GetOpenPorts ==
    /\ pc = "getOpenPorts"
    /\ IF UsesParsedList(portsEnv)
       THEN /\ agentInfo' = BuildAgentInfo(parsePorts(portsEnv).ports, agentPort)
            /\ pc' = "register"
       ELSE /\ pc' = "scanLoop"
            /\ UNCHANGED agentInfo
    /\ UNCHANGED <<fatal, envVars, agentPort, scanVars, regPosts, regResp,
                   loopVars, parseVars, lnVars>>

\* for port := startPort; port <= endPort; port++ { wg.Add(1) ...
ScanAdd ==
    /\ pc = "scanLoop"
    /\ IF port <= EndPort
       THEN /\ wg' = wg + 1
            /\ pc' = "scanAcquire"
       ELSE /\ pc' = "scanWait"
            /\ UNCHANGED wg
    /\ UNCHANGED <<fatal, envVars, agentPort, port, sem, mu, openPorts,
                   probe, regVars, loopVars, parseVars, lnVars>>

\* ... sem <- struct{}{}; go func(p int) {...}(port) }
ScanAcquire ==
    /\ pc = "scanAcquire"
    /\ SlotFree(sem)
    /\ sem' = sem + 1
    /\ probe' = [probe EXCEPT ![port] = "dial"]
    /\ port' = port + 1
    /\ pc' = "scanLoop"
    /\ UNCHANGED <<fatal, envVars, agentPort, wg, mu, openPorts, regVars,
                   loopVars, parseVars, lnVars>>

\* conn, err := net.DialTimeout(...); if err == nil {
ProbeDial(p) ==
    /\ probe[p] = "dial"
    /\ \E outcome \in DialOutcomes(p) :
           probe' = [probe EXCEPT
                        ![p] = IF ProbeFound(outcome) THEN "lock" ELSE "release"]
    /\ UNCHANGED <<pc, fatal, envVars, agentPort, port, sem, wg, mu,
                   openPorts, regVars, loopVars, parseVars, lnVars>>

\* mu.Lock()
ProbeLock(p) ==
    /\ probe[p] = "lock"
    /\ mu = 0
    /\ mu' = p
    /\ probe' = [probe EXCEPT ![p] = "append"]
    /\ UNCHANGED <<pc, fatal, envVars, agentPort, port, sem, wg, openPorts,
                   regVars, loopVars, parseVars, lnVars>>

\* openPorts = append(openPorts, p)
ProbeAppend(p) ==
    /\ probe[p] = "append"
    /\ openPorts' = AppendPort(openPorts, p)
    /\ probe' = [probe EXCEPT ![p] = "unlock"]
    /\ UNCHANGED <<pc, fatal, envVars, agentPort, port, sem, wg, mu,
                   regVars, loopVars, parseVars, lnVars>>

\* mu.Unlock()
ProbeUnlock(p) ==
    /\ probe[p] = "unlock"
    /\ mu' = 0
    /\ probe' = [probe EXCEPT ![p] = "close"]
    /\ UNCHANGED <<pc, fatal, envVars, agentPort, port, sem, wg, openPorts,
                   regVars, loopVars, parseVars, lnVars>>

\* conn.Close() }
ProbeClose(p) ==
    /\ probe[p] = "close"
    /\ probe' = [probe EXCEPT ![p] = "release"]
    /\ UNCHANGED <<pc, fatal, envVars, agentPort, port, sem, wg, mu,
                   openPorts, regVars, loopVars, parseVars, lnVars>>

\* defer func() { <-sem }()
ProbeRelease(p) ==
    /\ probe[p] = "release"
    /\ sem' = sem - 1
    /\ probe' = [probe EXCEPT ![p] = "wgDone"]
    /\ UNCHANGED <<pc, fatal, envVars, agentPort, port, wg, mu, openPorts,
                   regVars, loopVars, parseVars, lnVars>>

\* defer wg.Done()
ProbeDone(p) ==
    /\ probe[p] = "wgDone"
    /\ wg' = wg - 1
    /\ probe' = [probe EXCEPT ![p] = "done"]
    /\ UNCHANGED <<pc, fatal, envVars, agentPort, port, sem, mu, openPorts,
                   regVars, loopVars, parseVars, lnVars>>

\* Mutant of WaitReturns: getOpenPorts does not wait for the probes.
WaitReturnsAtOnce(n) == TRUE

\* wg.Wait() returns once the counter is zero.
WaitReturns(n) == n = 0

\* wg.Wait(); return openPorts, and main builds agentInfo from it.
ScanWait ==
    /\ pc = "scanWait"
    /\ WaitReturns(wg)
    /\ agentInfo' = BuildAgentInfo(openPorts, agentPort)
    /\ pc' = "register"
    /\ UNCHANGED <<fatal, envVars, agentPort, scanVars, regPosts, regResp,
                   loopVars, parseVars, lnVars>>

\* ----------------------------------------------------------- registration
\* Mutant of registerAgent: the response status is not looked at.
registerAgentIgnoringStatus(resp) == resp.err

\* registerAgent's result for the outcome of its http.Post: TRUE when it
\* returns a non-nil error.
registerAgent(resp) == resp.err \/ resp.status # StatusOK

\* if err := registerAgent(agentInfo, registrationURL); err != nil { return }
Register ==
    /\ pc = "register"
    /\ \E resp \in Responses :
          /\ regResp' = resp
          /\ regPosts' = regPosts + 1
          /\ pc' = StartupNext(registerAgent(resp), "interval")
          /\ fatal' = IF registerAgent(resp) THEN "register" ELSE fatal
    /\ UNCHANGED <<envVars, agentPort, scanVars, agentInfo, loopVars,
                   parseVars, lnVars>>

\* --------------------------------------------------------- reporting loop
\* The seconds main gives to time.NewTicker for a value of SEND_INTERVAL.
SendIntervalSeconds(str) ==
    IF str # <<>> /\ ~Atoi(str).err
    THEN Atoi(str).val
    ELSE DefaultIntervalSeconds

\* time.NewTicker(d) panics when d is not positive.
NewTickerPanics(seconds) == seconds <= 0

\* sendInterval := ...; ticker := time.NewTicker(sendInterval)
NewTicker ==
    /\ pc = "interval"
    /\ \E str \in SendIntervalValues :
          /\ intervalEnv' = str
          /\ sendInterval' = SendIntervalSeconds(str)
          /\ pc' = IF NewTickerPanics(sendInterval') THEN "panic" ELSE "collect"
    /\ UNCHANGED <<fatal, external, portsEnv, agentPort, scanVars, regVars,
                   ticks, sample, metricsPosts, attempts, collectErr, sendErr,
                   sendResp, sent, parseVars, lnVars>>

\* The provider queries of collectMetrics, in the order it makes them.
Providers == {"hostname", "ip", "cpu", "mem", "disk"}

\* Mutant of collectMetrics: the error of disk.Usage is not looked at.
collectMetricsIgnoringDisk(failure) == failure \notin {"none", "disk"}

\* collectMetrics' result when `failure` is the first query that fails
\* ("none" when all succeed): TRUE when it returns (Metrics{}, err).
collectMetrics(failure) == failure # "none"

\* Mutant of CollectNext: main returns on a collection error.
CollectNextReturn(err) == IF err THEN "exit" ELSE "send"

\* if err != nil { fmt.Printf(...) [continue] } else { sendMetrics ... }
CollectNext(err) == IF err THEN "tick" ELSE "send"

\* metrics, err := collectMetrics(), at startup (ticks = 0) and after every
\* tick.
CollectMetrics ==
    /\ pc = "collect"
    /\ \E failure \in {"none"} \cup Providers :
          /\ collectErr' = failure
          /\ sample' = IF collectMetrics(failure) THEN NoSample ELSE ticks
          /\ pc' = CollectNext(collectMetrics(failure))
    /\ attempts' = attempts + 1
    /\ sendErr' = FALSE
    /\ sendResp' = NoResp
    /\ UNCHANGED <<fatal, envVars, agentPort, scanVars, regVars, sendInterval,
                   ticks, metricsPosts, sent, parseVars, lnVars>>

\* sendMetrics' result for the outcome of its http.Post: TRUE when it
\* returns a non-nil error.  The status is only printed.
sendMetrics(resp) == resp.err

\* Mutant of SendNext: a failed send is tried again.
SendNextRetry(err) == IF err THEN "send" ELSE "tick"

\* if err := sendMetrics(...); err != nil { fmt.Printf(...) }: the cycle ends
\* either way.
SendNext(err) == "tick"

\* sendMetrics(metrics, metricsURL): one http.Post.
SendMetrics ==
    /\ pc = "send"
    /\ \E resp \in Responses :
          /\ sendResp' = resp
          /\ sendErr' = sendMetrics(resp)
          /\ pc' = SendNext(sendMetrics(resp))
    /\ metricsPosts' = metricsPosts + 1
    /\ sent' = Append(sent, [cycle |-> ticks, sample |-> sample,
                             partial |-> collectErr # "none"])
    /\ sample' = IF pc' = "send" THEN sample ELSE NoSample
    /\ UNCHANGED <<fatal, envVars, agentPort, scanVars, regVars, sendInterval,
                   ticks, attempts, collectErr, parseVars, lnVars>>

\* for range ticker.C { ...
Tick ==
    /\ pc = "tick"
    /\ ticks < MaxTicks
    /\ ticks' = ticks + 1
    /\ pc' = "collect"
    /\ UNCHANGED <<fatal, envVars, agentPort, scanVars, regVars, sendInterval,
                   sample, metricsPosts, attempts, collectErr, sendErr,
                   sendResp, sent, parseVars, lnVars>>

Next ==
    \/ Listen
    \/ GetHostname
    \/ GetLocalIP
    \/ GetOpenPorts
    \/ ScanAdd
    \/ ScanAcquire
    \/ \E p \in Ports : ProbeDial(p)
    \/ \E p \in Ports : ProbeLock(p)
    \/ \E p \in Ports : ProbeAppend(p)
    \/ \E p \in Ports : ProbeUnlock(p)
    \/ \E p \in Ports : ProbeClose(p)
    \/ \E p \in Ports : ProbeRelease(p)
    \/ \E p \in Ports : ProbeDone(p)
    \/ ScanWait
    \/ Register
    \/ NewTicker
    \/ CollectMetrics
    \/ SendMetrics
    \/ Tick

Spec == Init /\ [][Next]_vars

\* ------------------------------------------------------ the accept goroutine
\* The process runs until main returns or panics; its goroutines stop with it.
Alive == pc \notin {"exit", "panic"}

\* Some client connects to the agent's port: the connection waits in the
\* listener's queue.
Connect ==
    /\ Alive
    /\ agentPort # 0
    /\ arrived < MaxConns
    /\ arrived' = arrived + 1
    /\ backlog' = backlog + 1
    /\ UNCHANGED <<pc, fatal, envVars, agentPort, scanVars, regVars, loopVars,
                   parseVars, acceptor, closed, acceptErrs>>

\* conn, err := ln.Accept() returns a waiting connection.
AcceptConn ==
    /\ Alive
    /\ acceptor = "accept"
    /\ backlog > 0
    /\ backlog' = backlog - 1
    /\ acceptor' = "close"
    /\ UNCHANGED <<pc, fatal, envVars, agentPort, scanVars, regVars, loopVars,
                   parseVars, arrived, closed, acceptErrs>>

\* Mutant of AcceptErrorNext: the goroutine returns on an Accept error.
AcceptErrorNextReturn == "off"

\* if err != nil { fmt.Println(...); continue }
AcceptErrorNext == "accept"

\* conn, err := ln.Accept() returns an error.
AcceptError ==
    /\ Alive
    /\ acceptor = "accept"
    /\ acceptErrs' = TRUE
    /\ acceptor' = AcceptErrorNext
    /\ UNCHANGED <<pc, fatal, envVars, agentPort, scanVars, regVars, loopVars,
                   parseVars, backlog, arrived, closed>>

\* conn.Close(), and the loop calls Accept again.
CloseConn ==
    /\ Alive
    /\ acceptor = "close"
    /\ closed' = closed + 1
    /\ acceptor' = "accept"
    /\ UNCHANGED <<pc, fatal, envVars, agentPort, scanVars, regVars, loopVars,
                   parseVars, backlog, arrived, acceptErrs>>

\* main()'s goroutine, the probes and the accept goroutine together.
NextAgent ==
    \/ Next
    \/ Connect
    \/ AcceptConn
    \/ AcceptError
    \/ CloseConn

\* The Go scheduler runs every goroutine that can take a step, and a dial
\* ends by its timeout at the latest.
ScanFairness ==
    /\ WF_vars(ScanAdd)
    /\ WF_vars(ScanAcquire)
    /\ WF_vars(ScanWait)
    /\ \A p \in Ports :
          /\ WF_vars(ProbeDial(p))
          /\ WF_vars(ProbeLock(p))
          /\ WF_vars(ProbeAppend(p))
          /\ WF_vars(ProbeUnlock(p))
          /\ WF_vars(ProbeClose(p))
          /\ WF_vars(ProbeRelease(p))
          /\ WF_vars(ProbeDone(p))

\* The accept goroutine is scheduled too, and Accept hands over a waiting
\* connection.
ListenerFairness ==
    /\ WF_vars(AcceptConn)
    /\ WF_vars(CloseConn)

\* main() and the probes, with the scheduling of the scan.
SpecFair == Init /\ [][Next]_vars /\ ScanFairness

\* The whole process is followed for PORTS unset or "2", with no other
\* process listening.
InitAgent ==
    /\ Init
    /\ external = {}
    /\ portsEnv \in {<<>>, <<"2">>}

SpecAgent ==
    InitAgent /\ [][NextAgent]_vars /\ ScanFairness /\ ListenerFairness

\* ------------------------------------------------- parsePorts on its own
\* Characters of the strings SpecParse enumerates: digits, the two
\* separators, white space, a sign and a character no number contains.
Alphabet == {"0", "1", "2", ",", "-", " ", "+", "x"}

Strings == UNION { [1..n -> Alphabet] : n \in 0..MaxLen }

InitParse ==
    /\ pc = "parsePorts"
    /\ external = {}
    /\ agentPort = 0
    /\ portsEnv = <<>>
    /\ intervalEnv = Unread
    /\ port = startPort
    /\ sem = 0
    /\ wg = 0
    /\ mu = 0
    /\ openPorts = <<>>
    /\ probe = [p \in Ports |-> "idle"]
    /\ agentInfo = NoInfo
    /\ regPosts = 0
    /\ regResp = NoResp
    /\ sendInterval = -1
    /\ ticks = 0
    /\ sample = NoSample
    /\ metricsPosts = 0
    /\ fatal = "none"
    /\ attempts = 0
    /\ collectErr = "none"
    /\ sendErr = FALSE
    /\ sendResp = NoResp
    /\ sent = <<>>
    /\ acceptor = "off"
    /\ backlog = 0
    /\ arrived = 0
    /\ closed = 0
    /\ acceptErrs = FALSE
    /\ parseIn \in Strings
    /\ parseOut = NoResult

\* ports, err := parsePorts(s)
ParsePorts ==
    /\ pc = "parsePorts"
    /\ parseOut' = [done |-> TRUE, err |-> parsePorts(parseIn).err,
                    ports |-> parsePorts(parseIn).ports]
    /\ pc' = "parsed"
    /\ UNCHANGED <<fatal, envVars, agentPort, scanVars, regVars, loopVars, parseIn,
                   lnVars>>

NextParse == ParsePorts

SpecParse == InitParse /\ [][NextParse]_vars

\* ======================================================= claims: parsePorts
\* What the specification's section 4.1 calls a port specification, stated
\* on the characters and independently of parsePorts.

\* The k-th field of s when cut at every sep, and the number of fields.
Cuts(s, sep) == {0, Len(s) + 1} \cup {i \in 1..Len(s) : s[i] = sep}
NumFields(s, sep) == Cardinality(Cuts(s, sep)) - 1
Field(s, sep, k) ==
    LET lo == CHOOSE c \in Cuts(s, sep) :
                  Cardinality({d \in Cuts(s, sep) : d < c}) = k - 1
        hi == CHOOSE c \in Cuts(s, sep) :
                  Cardinality({d \in Cuts(s, sep) : d < c}) = k
    IN  SubSeq(s, lo + 1, hi - 1)

\* s without the white space around it.
Stripped(s) ==
    LET inked == {i \in 1..Len(s) : s[i] # " "}
    IN  IF inked = {} THEN <<>>
        ELSE SubSeq(s, CHOOSE i \in inked : \A j \in inked : i <= j,
                       CHOOSE i \in inked : \A j \in inked : j <= i)

\* A non-negative integer literal, and the number it denotes.
IsNumber(s) == s # <<>> /\ \A i \in 1..Len(s) : s[i] \in Digits
RECURSIVE NumberOf(_)
NumberOf(s) ==
    IF Len(s) = 1 THEN DigitVal(s[1])
    ELSE DigitVal(s[Len(s)]) + 10 * NumberOf(SubSeq(s, 1, Len(s) - 1))

\* An integer literal as strconv reads one: a number, possibly signed.
IsInteger(s) ==
    IsNumber(s) \/ (Len(s) > 1 /\ s[1] \in {"+", "-"} /\ IsNumber(Tail(s)))

IsLiteralToken(t) == IsNumber(Stripped(t))
IsRangeToken(t) ==
    LET u == Stripped(t)
    IN  /\ NumFields(u, "-") = 2
        /\ IsNumber(Stripped(Field(u, "-", 1)))
        /\ IsNumber(Stripped(Field(u, "-", 2)))
        /\ NumberOf(Stripped(Field(u, "-", 1)))
               <= NumberOf(Stripped(Field(u, "-", 2)))
ValidToken(t) == IsLiteralToken(t) \/ IsRangeToken(t)
ValidSpecification(s) ==
    \A k \in 1..NumFields(s, ",") : ValidToken(Field(s, ",", k))

\* The values a valid token denotes, in increasing order.
TokenValues(t) ==
    IF IsLiteralToken(t) THEN <<NumberOf(Stripped(t))>>
    ELSE LET lo == NumberOf(Stripped(Field(Stripped(t), "-", 1)))
             hi == NumberOf(Stripped(Field(Stripped(t), "-", 2)))
         IN  [i \in 1..(hi - lo + 1) |-> lo + (i - 1)]

RECURSIVE ValuesFrom(_, _)
ValuesFrom(s, k) ==
    IF k > NumFields(s, ",") THEN <<>>
    ELSE TokenValues(Field(s, ",", k)) \o ValuesFrom(s, k + 1)

SeqRange(q) == {q[i] : i \in 1..Len(q)}

\* C6: for every valid specification parsePorts succeeds and returns the
\* concatenation, in token order, of each literal and of each range's
\* inclusive expansion; the set of values returned is the union of the
\* tokens' values.
C6_ValidSpecParsed ==
    (parseOut.done /\ ValidSpecification(parseIn)) =>
        /\ ~parseOut.err
        /\ parseOut.ports = ValuesFrom(parseIn, 1)
        /\ SeqRange(parseOut.ports) =
               UNION { SeqRange(TokenValues(Field(parseIn, ",", k))) :
                           k \in 1..NumFields(parseIn, ",") }

\* A literal, then a range that repeats it: the values come in token order.
C6_Witness ==
    /\ parseOut.done
    /\ parseIn = <<"2", ",", "1", "-", "2">>
    /\ parseOut.ports = <<2, 1, 2>>

\* A token that section 4.1 rejects: not an integer literal, a range with
\* a wrong number of parts or with a part that is no integer literal, or an
\* inverted range.
InvalidToken(t) ==
    LET u == Stripped(t)
    IN  IF \E i \in 1..Len(u) : u[i] = "-"
        THEN \/ NumFields(u, "-") # 2
             \/ ~IsInteger(Stripped(Field(u, "-", 1)))
             \/ ~IsInteger(Stripped(Field(u, "-", 2)))
             \/ /\ IsNumber(Stripped(Field(u, "-", 1)))
                /\ IsNumber(Stripped(Field(u, "-", 2)))
                /\ NumberOf(Stripped(Field(u, "-", 1)))
                       > NumberOf(Stripped(Field(u, "-", 2)))
        ELSE ~IsInteger(u)

\* C7: when any token is invalid parsePorts returns an error and an empty
\* list, also when tokens before or after the invalid one are valid: the
\* invalid token is never skipped and no partial list is returned.
C7_InvalidTokenFails ==
    (parseOut.done /\
     \E k \in 1..NumFields(parseIn, ",") : InvalidToken(Field(parseIn, ",", k)))
        => (parseOut.err /\ parseOut.ports = <<>>)

\* A valid token, then an inverted range.
C7_Witness ==
    /\ parseOut.done
    /\ parseIn = <<"1", ",", "2", "-", "1">>
    /\ parseOut.err
    /\ parseOut.ports = <<>>

\* ===================================================== claims: the process
\* Probes that have been started and have not yet released their slot; a
\* probe's socket is open only while the probe is among them.
InFlight ==
    {p \in Ports :
        probe[p] \in {"dial", "lock", "append", "unlock", "close", "release"}}

\* The number of times v occurs in the list q.
Occurrences(q, v) == Cardinality({i \in 1..Len(q) : q[i] = v})

\* getOpenPorts went through the scan and has returned.
ScanReturned == agentInfo.set /\ pc # "getOpenPorts" /\ port > EndPort

\* C1: during the scan the probes that hold a slot, and so the open probe
\* sockets, never outnumber the capacity of the semaphore.
C1_ProbesWithinBudget ==
    /\ Cardinality(InFlight) <= MaxSlots
    /\ sem <= MaxSlots

\* The budget is used up and the dispatching loop waits for a slot.
C1_Witness ==
    /\ pc = "scanAcquire"
    /\ Cardinality(InFlight) = MaxSlots
    /\ port <= EndPort

\* C2: the list a scan returns holds every listening port exactly once and
\* no other port, in whatever order the probes completed.
C2_ScanYieldsListening ==
    ScanReturned =>
        /\ \A p \in Ports :
              Occurrences(agentInfo.openPorts, p) =
                  IF p \in Listening THEN 1 ELSE 0
        /\ SeqRange(agentInfo.openPorts) \subseteq Ports

\* Two listening ports found in decreasing order, and a port left out.
C2_Witness ==
    /\ ScanReturned
    /\ Len(agentInfo.openPorts) = 2
    /\ agentInfo.openPorts[1] > agentInfo.openPorts[2]
    /\ Listening # Ports

\* C3 as stated: PORTS unset and one port with another process listening
\* on it give a registration whose openPorts is that port alone.
C3_OnlyTheListeningPort ==
    (regPosts = 1 /\ portsEnv = <<>> /\ Cardinality(external) = 1)
        => SeqRange(agentInfo.openPorts) = external

\* C3 amended: the registration's openPorts is that port and the port of
\* the agent's own listener, which is bound before the scan starts.
C3_ListeningPortAndAgentPort ==
    (regPosts = 1 /\ portsEnv = <<>> /\ Cardinality(external) = 1)
        => /\ SeqRange(agentInfo.openPorts) = external \cup {agentInfo.agentPort}
           /\ agentInfo.agentPort \notin external
           /\ Len(agentInfo.openPorts) = 2

C3_Witness ==
    /\ regPosts = 1
    /\ portsEnv = <<>>
    /\ external = {2}
    /\ agentInfo.agentPort = 3
    /\ SeqRange(agentInfo.openPorts) = {2, 3}

\* C4: when PORTS is set and parses, no port is ever probed and the list
\* returned, and registered, is the parsed one, whatever is listening.
C4_ParsedListVerbatim ==
    (portsEnv # <<>> /\ ~parsePorts(portsEnv).err) =>
        /\ \A p \in Ports : probe[p] = "idle"
        /\ sem = 0 /\ wg = 0 /\ openPorts = <<>>
        /\ (regPosts = 1 \/ pc = "register") =>
              /\ agentInfo.set
              /\ agentInfo.openPorts = ValuesFrom(portsEnv, 1)
              /\ portsEnv = <<"2", "2", ",", "8", "0", "0", "0", "-", "8", "0",
                              "0", "2">>
                    => agentInfo.openPorts = <<22, 8000, 8001, 8002>>

\* PORTS="22,8000-8002" registered while none of those ports listens.
C4_Witness ==
    /\ regPosts = 1
    /\ portsEnv = <<"2", "2", ",", "8", "0", "0", "0", "-", "8", "0", "0", "2">>
    /\ agentInfo.openPorts = <<22, 8000, 8001, 8002>>
    /\ external = {1}

\* C5: when PORTS is empty or does not parse, getOpenPorts returns only
\* after every port from startPort to endPort has been probed, and returns
\* the scan's list: the listening ports and nothing of the failed parse.
C5_FallsBackToScan ==
    ((portsEnv = <<>> \/ parsePorts(portsEnv).err) /\
     (regPosts = 1 \/ pc = "register"))
        => /\ agentInfo.set
           /\ \A p \in Ports : probe[p] = "done"
           /\ agentInfo.openPorts = openPorts
           /\ SeqRange(agentInfo.openPorts) = Listening

\* PORTS="1-3,5-4" fails on its second token; ports 1 and 3 of the first
\* token are not in the result.
C5_Witness ==
    /\ regPosts = 1
    /\ portsEnv = <<"1", "-", "3", ",", "5", "-", "4">>
    /\ SeqRange(agentInfo.openPorts) = {2}

\* C8 as stated: the openPorts of the registration has no duplicate and no
\* value outside 1..65535.
C8_PortSetValid ==
    regPosts = 1 =>
        \A i \in 1..Len(agentInfo.openPorts) :
            /\ agentInfo.openPorts[i] \in 1..65535
            /\ \A j \in 1..Len(agentInfo.openPorts) :
                  agentInfo.openPorts[i] = agentInfo.openPorts[j] => i = j

\* The registration POST got a response with a 2xx status.
RegisteredWith2xx ==
    regResp.sent /\ ~regResp.err /\ regResp.status \in 200..299

\* C9: at most one registration POST is ever issued, and the reporting loop
\* (and so every metrics POST) comes only after that POST has succeeded.
C9_RegisterOnceBeforeMetrics ==
    /\ regPosts <= 1
    /\ regPosts = 1 <=> regResp.sent
    /\ (metricsPosts > 0 \/ pc \in {"interval", "collect", "send", "tick", "panic"})
          => (regPosts = 1 /\ RegisteredWith2xx)

\* A metrics POST issued, after the one registration.
C9_Witness == metricsPosts = 2 /\ regPosts = 1 /\ RegisteredWith2xx

\* C10 as stated: a registration answered with any 2xx status lets the
\* agent go on to the reporting loop.
C10_Any2xxRegisters == RegisteredWith2xx => pc # "exit"

\* ============================================ claims: startup and reporting
\* main's goroutine is in the reporting loop.
InLoop == pc \in {"collect", "send", "tick"}

\* C11: after a startup-fatal failure (listener, hostname, local IP or
\* registration) the process has ended without having collected or posted
\* any metrics sample, and for the first three without a registration POST.
C11_FatalEndsBeforeLoop ==
    fatal # "none" =>
        /\ pc = "exit"
        /\ ~ENABLED Next
        /\ attempts = 0 /\ ticks = 0 /\ metricsPosts = 0 /\ sent = <<>>
        /\ fatal \in {"listen", "hostname", "ip"} =>
              (regPosts = 0 /\ ~regResp.sent)
        /\ fatal = "register" => regPosts = 1

\* The local IP lookup failed after the listener was bound.
C11_Witness ==
    /\ fatal = "ip"
    /\ pc = "exit"
    /\ agentPort # 0
    /\ regPosts = 0

C12_TickAvailable == (pc = "tick" /\ ticks < MaxTicks) => ENABLED Tick

C12_LoopStep ==
    /\ InLoop => InLoop'
    /\ pc = "collect" => (pc' \in {"send", "tick"} /\ attempts' = attempts + 1)
    /\ pc = "send" => pc' = "tick"
    /\ pc = "tick" => (pc' = "collect" /\ ticks' = ticks + 1)

\* C12: once in the reporting loop main never leaves it; a cycle, failed
\* or not, ends waiting for the ticker, and the next tick starts a new
\* sample-and-send attempt.
C12_LoopNeverEnds == []C12_TickAvailable /\ [][C12_LoopStep]_<<pc, attempts, ticks>>

\* Cycle 0 failed to collect, cycle 1 failed to send, cycle 2 starts.
C12_Witness ==
    /\ pc = "collect"
    /\ ticks = 2
    /\ attempts = 2
    /\ sendErr
    /\ Len(sent) = 1

\* C13 as stated: SEND_INTERVAL unset, 0 or not an integer gives the
\* default interval and the agent reaches the reporting loop.
C13_DefaultInterval ==
    intervalEnv \in {<<>>, <<"0">>, <<"x">>} =>
        (sendInterval = DefaultIntervalSeconds /\ InLoop)

\* C14 as stated: once the registration has succeeded the first attempt is
\* made without a tick, and every later attempt follows exactly one tick.
C14_FirstAttemptThenTicks ==
    (regResp.sent /\ ~registerAgent(regResp) /\ intervalEnv # Unread) =>
        /\ InLoop
        /\ attempts = IF pc = "collect" THEN ticks ELSE ticks + 1

\* C16: the agentPort of the registration is the port the listener is bound
\* on, and the listener is bound, and its accept loop started, before the
\* registration POST is sent.
C16_AgentPortIsListenerPort ==
    (pc = "register" \/ regPosts > 0) =>
        /\ agentInfo.set
        /\ agentInfo.agentPort = agentPort
        /\ agentPort \in Ports
        /\ agentPort \in Listening
        /\ acceptor # "off"

C16_Witness ==
    /\ regPosts = 1
    /\ agentInfo.agentPort = 2
    /\ agentPort = 2

\* C17: a cycle issues at most one metrics POST, a sample is posted at most
\* once and in the cycle that collected it, whatever the outcome; a response
\* of any status is not an error.
C17_NoRetryNoBuffer ==
    /\ Len(sent) = metricsPosts
    /\ \A i, j \in 1..Len(sent) :
          (sent[i].cycle = sent[j].cycle \/ sent[i].sample = sent[j].sample)
              => i = j
    /\ \A i \in 1..Len(sent) :
          sent[i].sample # NoSample /\ sent[i].sample = sent[i].cycle
    /\ pc = "tick" => sample = NoSample
    /\ sendResp # NoResp => (sendErr <=> sendResp.err)

\* A POST answered 500 after a POST that failed in transport: two POSTs in
\* two cycles, the second one not an error.
C17_Witness ==
    /\ pc = "tick"
    /\ ticks = 1
    /\ Len(sent) = 2
    /\ sendResp # NoResp
    /\ ~sendResp.err
    /\ sendResp.status = 500
    /\ ~sendErr

\* C18: a cycle whose collectMetrics had a failing query holds no sample
\* and issues no metrics POST; no POST carries a sample of a failed
\* collection.
C18_NoPartialSample ==
    /\ (pc \in {"send", "tick"} /\ collectErr # "none") =>
          /\ pc = "tick"
          /\ sample = NoSample
          /\ \A i \in 1..Len(sent) : sent[i].cycle # ticks
    /\ \A i \in 1..Len(sent) : ~sent[i].partial
    /\ pc = "send" => sample = ticks

\* The first cycle (before any tick) failed on the disk query.
C18_Witness ==
    /\ pc = "tick"
    /\ ticks = 0
    /\ collectErr = "disk"
    /\ sent = <<>>

\* ======================================================== claims: the scan
C19_ReturnedAfterAllProbes ==
    ScanReturned =>
        /\ \A p \in Ports : probe[p] = "done"
        /\ sem = 0 /\ wg = 0 /\ mu = 0
        /\ agentInfo.openPorts = openPorts

C19_NoAppendAfterReturn ==
    (agentInfo.set \/ agentInfo'.set) => UNCHANGED <<openPorts, probe, sem, wg>>

\* C19: a scan that starts returns; when getOpenPorts returns every probe has
\* completed and released its slot, and nothing is appended afterwards.
C19_ScanTerminates ==
    /\ []C19_ReturnedAfterAllProbes
    /\ [][C19_NoAppendAfterReturn]_vars
    /\ (pc = "scanLoop") ~> (pc = "register" /\ ScanReturned)

C19_Witness ==
    /\ ScanReturned
    /\ regPosts = 1
    /\ Len(openPorts) = 2
    /\ \A p \in Ports : probe[p] = "done"

\* ==================================================== claims: the listener
MainStep ==
    \/ GetHostname \/ GetLocalIP \/ GetOpenPorts \/ ScanAdd \/ Register
    \/ NewTicker \/ CollectMetrics \/ SendMetrics \/ Tick

C15_ListenerRuns ==
    /\ agentPort # 0 => acceptor \in {"accept", "close"}
    /\ arrived = backlog + closed + (IF acceptor = "close" THEN 1 ELSE 0)
    /\ (Alive /\ pc \notin {"listen", "scanAcquire", "scanWait"}
           /\ ~(pc = "tick" /\ ticks = MaxTicks)) => ENABLED MainStep

C15_ListenerStep ==
    /\ (lnVars' # lnVars /\ pc # "listen") =>
          UNCHANGED <<pc, fatal, envVars, agentPort, scanVars, regVars, loopVars>>
    /\ (acceptor = "close" /\ acceptor' # "close") =>
          (closed' = closed + 1 /\ acceptor' = "accept")
    /\ (acceptor = "accept" /\ acceptErrs' # acceptErrs) => acceptor' = "accept"

\* C15: once started the accept loop never ends; every connection made to
\* the listener is accepted and then closed at once, as long as the process
\* runs; an Accept error leaves the loop running; no step of the listener
\* changes or holds up main's flow.
C15_ListenerForLife ==
    /\ []C15_ListenerRuns
    /\ [][C15_ListenerStep]_vars
    /\ \A n \in 1..MaxConns : (arrived >= n) ~> (closed >= n \/ ~Alive)

\* Two connections accepted and closed, and an Accept error, while main is
\* in the reporting loop.
C15_Witness ==
    /\ closed = 2
    /\ acceptErrs
    /\ acceptor = "accept"
    /\ pc = "tick"

====
